---- MODULE Spec2Model ----
(***************************************************************************)
(* Run-tracking session of the territory game (frontend/app/run/active.tsx, *)
(* the variant with the background location task) together with the geo    *)
(* helpers of src/utils/geo.                                                *)
(*                                                                         *)
(* Coordinates are counted in grid units of 1e-5 degree and distances in    *)
(* millimetres, so that the arithmetic of the code stays in the integers.   *)
(***************************************************************************)
EXTENDS Integers, Sequences, FiniteSets, TLC

\* ------------------------------------------------------------------ bounds

\* most samples the foreground buffer collects in a session (initial fix included)
MaxFg == 3
\* most invocations of the background location task in a session
MaxBg == 1
\* most 'Stop Run?' alerts open at once
MaxDialogs == 2
\* most submitRun calls in progress at once
MaxSubmits == 2
\* longest foreground / background argument of a checked mergeCoords call
MaxFgLen == 3
MaxBgLen == 2
\* most samples of both arguments together
MaxTotalLen == 4
\* how many times the same pair of buffers is merged
MaxMerges == 2
\* most invocations of the background location task when they overlap
MaxOverlap == 3
\* longest elapsed time, in seconds, of the paces that are formatted
MaxPaceSecs == 960
\* most whole seconds the run clock shows
MaxElapsed == 1
\* most reads of the background buffer a session's submitRun calls make
MaxReads == 2

\* ------------------------------------------------------------- geo helpers

\* One grid unit (1e-5 degree) of arc on the sphere of radius R = 6371 km,
\* in millimetres: 6371000000 * pi / 180 * 1e-5, rounded.
UnitMm == 1112

\* the 0.003 km of the near-duplicate test of mergeCoords, in millimetres
DedupThresholdMm == 3000

Abs(x) == IF x < 0 THEN -x ELSE x

\* floor of the square root
ISqrt(n) == CHOOSE r \in 0..n : r * r <= n /\ (r + 1) * (r + 1) > n

\* haversineDistance(coord1, coord2) of two <<lng, lat>> pairs.  On the grid
\* of the model (a few units around latitude 0) cos(lat) is 1 and the
\* great-circle angle is the Euclidean norm of (dlat, dlng).
haversineDistance(coord1, coord2) ==
    LET dlat == Abs(coord2[2] - coord1[2])
        dlng == Abs(coord2[1] - coord1[1])
    IN  IF dlng = 0 THEN UnitMm * dlat
        ELSE IF dlat = 0 THEN UnitMm * dlng
        ELSE ISqrt(UnitMm * UnitMm * (dlat * dlat + dlng * dlng))

\* [c.longitude, c.latitude]
LngLat(c) == <<c.longitude, c.latitude>>

\* ------------------------------------------------------------ coordinates

\* A Coord is a record with latitude and longitude and, optionally, a
\* timestamp field (interface Coord: timestamp?: number).
HasTimestamp(c) == "timestamp" \in DOMAIN c

\* (a.timestamp || 0)
TimestampOrZero(c) == IF HasTimestamp(c) THEN c.timestamp ELSE 0

MkCoord(lat, lng, ts) == [latitude |-> lat, longitude |-> lng, timestamp |-> ts]

MkCoordNoTs(lat, lng) == [latitude |-> lat, longitude |-> lng]

\* ------------------------------------------------------------- mergeCoords

\* combined.sort((a, b) => (a.timestamp || 0) - (b.timestamp || 0)):
\* Array.prototype.sort is stable, so an element goes behind every element
\* already placed whose key is not larger.
\* an insertion that goes in front of the elements with the same key
RECURSIVE InsertBeforeEqual(_, _)
InsertBeforeEqual(c, sorted) ==
    IF sorted = <<>> THEN <<c>>
    ELSE IF TimestampOrZero(Head(sorted)) - TimestampOrZero(c) >= 0
         THEN <<c>> \o sorted
         ELSE <<Head(sorted)>> \o InsertBeforeEqual(c, Tail(sorted))

RECURSIVE InsertByTimestamp(_, _)
InsertByTimestamp(c, sorted) ==
    IF sorted = <<>> THEN <<c>>
    ELSE IF TimestampOrZero(Head(sorted)) - TimestampOrZero(c) > 0
         THEN <<c>> \o sorted
         ELSE <<Head(sorted)>> \o InsertByTimestamp(c, Tail(sorted))

RECURSIVE SortFrom(_, _)
SortFrom(rest, sorted) ==
    IF rest = <<>> THEN sorted
    ELSE SortFrom(Tail(rest), InsertByTimestamp(Head(rest), sorted))

SortByTimestamp(combined) == SortFrom(combined, <<>>)

\* a test that drops exact repeats of the last kept position only
KeepAfterAnyMove(last, c) ==
    haversineDistance(LngLat(last), LngLat(c)) > 0

\* the test of the dedup loop: is c pushed behind the last kept sample?
KeepAfter(last, c) ==
    haversineDistance(LngLat(last), LngLat(c)) > DedupThresholdMm

\* the dedup loop measuring against the last sample seen, kept or not
RECURSIVE DedupLoopLastSeen(_, _)
DedupLoopLastSeen(combined, result) ==
    IF combined = <<>> THEN result
    ELSE IF Len(combined) = 1
         THEN IF Len(result) = 0 THEN <<Head(combined)>> ELSE result
         ELSE LET c == Head(combined)
                  n == combined[2]
                  kept == IF Len(result) = 0 THEN <<c>> ELSE result
              IN  IF KeepAfter(c, n)
                  THEN DedupLoopLastSeen(Tail(combined), Append(kept, n))
                  ELSE DedupLoopLastSeen(Tail(combined), kept)

\* for (const c of combined) { ... } with the accumulator `result`
RECURSIVE DedupLoop(_, _)
DedupLoop(combined, result) ==
    IF combined = <<>> THEN result
    ELSE LET c == Head(combined)
         IN  IF Len(result) = 0
             THEN DedupLoop(Tail(combined), <<c>>)
             ELSE IF KeepAfter(result[Len(result)], c)
                  THEN DedupLoop(Tail(combined), Append(result, c))
                  ELSE DedupLoop(Tail(combined), result)

\* sorted and deduplicated concatenation, before the length test
MergeResult(foreground, background) ==
    DedupLoop(SortByTimestamp(foreground \o background), <<>>)

MergeNoFallback(foreground, background) == MergeResult(foreground, background)

mergeCoords(foreground, background) ==
    LET result == MergeResult(foreground, background)
    IN  IF Len(result) >= 2 THEN result ELSE foreground

\* What the caller's foreground array holds after the call: the code sorts
\* the fresh array `combined` ([...foreground, ...background]), never its
\* arguments.
ForegroundSortedInPlace(foreground, background) == SortByTimestamp(foreground)

ForegroundAfterMerge(foreground, background) == foreground

BackgroundAfterMerge(foreground, background) == background

\* --------------------------------------------------------- durable storage

\* AsyncStorage holds strings.  JSON.stringify(buffer) writes each sample as
\* its fields in order, leaving out an undefined timestamp; JSON.parse reads
\* them back.
StringifyCoord(c) ==
    IF HasTimestamp(c) THEN <<c.latitude, c.longitude, c.timestamp>>
    ELSE <<c.latitude, c.longitude>>

ParseCoord(t) ==
    IF Len(t) = 3 THEN MkCoord(t[1], t[2], t[3]) ELSE MkCoordNoTs(t[1], t[2])

JSONStringify(buffer) == [i \in 1..Len(buffer) |-> StringifyCoord(buffer[i])]

JSONParse(raw) == [i \in 1..Len(raw) |-> ParseCoord(raw[i])]

\* getItem of a key that is not set resolves to null
Absent == [present |-> FALSE]

Stored(raw) == [present |-> TRUE, raw |-> raw]

\* if (bgRaw): null is falsy, every JSON text is a non-empty string
Truthy(item) == item.present

\* existing ? JSON.parse(existing) : []
ExistingBuffer(item) == IF Truthy(item) THEN JSONParse(item.raw) ELSE <<>>

\* a map to [latitude, longitude] pairs
GeoCoordsLatFirst(allCoords) ==
    [i \in 1..Len(allCoords) |-> <<allCoords[i].latitude, allCoords[i].longitude>>]

\* allCoords.map((c) => [c.longitude, c.latitude])
GeoCoords(allCoords) == [i \in 1..Len(allCoords) |-> LngLat(allCoords[i])]

\* The response of POST /runs/end, of which the model keeps the route the
\* service sends back (run.routeCoordinates.coordinates).
RunResult(coordinates) == [run |-> [routeCoordinates |-> coordinates]]

\* JSON.stringify(result) and the JSON.parse of the summary screen
StringifyResult(result) == <<"run", <<"routeCoordinates", result.run.routeCoordinates>>>>

ParseResult(raw) == [run |-> [routeCoordinates |-> raw[2][2]]]

\* useState<any>(null)
NoResult == [null |-> TRUE]

\* what an earlier run left under last_run_result
StaleResult == StringifyResult(RunResult(<<<<9, 9>>, <<9, 8>>>>))

\* ---------------------------------------------------------------- metrics

\* useState(0) of pace
PaceZero == <<0, 1>>

\* n / d of two numbers: a zero divisor gives Infinity or NaN, kept as the
\* pair with denominator 0
Divide(n, d) == <<n, d>>

\* (secs / 60) / distanceRef.current with the distance in millimetres:
\* secs * 1000000 / (60 * mm) minutes per kilometre
PaceOf(secs, mm) == Divide(secs * 1000000, 60 * mm)

\* !paceMinPerKm || paceMinPerKm <= 0 (Infinity is neither, NaN is falsy)
NoPace(p) ==
    IF p[2] = 0 THEN p[1] = 0
    ELSE p[1] = 0 \/ (p[1] < 0) # (p[2] < 0)

\* the text formatPace returns for no pace
Placeholder == [text |-> "--:--"]

\* formatPace(paceMinPerKm): the placeholder, or the two fields of
\* `${mins}:${secs padded to 2}`; Math.round rounds a half up. The
\* arithmetic is exact: where (p - mins) * 60 is exactly a half, the double
\* the code computes can lie just below it and give the second below.
formatPace(paceMinPerKm) ==
    IF NoPace(paceMinPerKm) THEN Placeholder
    ELSE IF paceMinPerKm[2] = 0 THEN [text |-> "Infinity:NaN"]
    ELSE LET n == paceMinPerKm[1]
             d == paceMinPerKm[2]
             mins == n \div d
             secs == (2 * 60 * (n % d) + d) \div (2 * d)
         IN  [mins |-> mins, secs |-> secs]

\* ---------------------------------------------------------------- session

VARIABLES
    status,                \* useState status: requesting | active | stopping
    mounted,               \* the screen is mounted
    nav,                   \* navigation the screen asked for: none | back | summary
    lastAlert,             \* title of the last Alert.alert
    initPc,                \* the await initRun is suspended at
    hasTaskManager,        \* Platform.OS !== 'web' && TaskManager
    runIdRef,              \* runIdRef.current is set
    coordsRef,             \* coordsRef.current, the foreground buffer
    distanceRef,           \* distanceRef.current, in millimetres
    locationSubscription,  \* locationSubscription.current is set
    fgLive,                \* the provider still delivers foreground fixes
    bgTask,                \* background location updates: off | on | stopping
    bgStopRequested,       \* stopLocationUpdatesAsync has been called
    bgStore,               \* AsyncStorage item bg_location_buffer
    bgHandlers,            \* task invocations between their read and their write
    bgInvocations,         \* task invocations so far
    dialogs,               \* open 'Stop Run?' alerts
    submits,               \* submitRun calls in progress
    bgReads,               \* getItem(BG_BUFFER_KEY) calls the screen has made
    lastRunResult,         \* AsyncStorage item last_run_result
    handedOver,            \* payload of the endRun call that opened the summary
    summaryResult,         \* useState runResult of the summary screen
    endSucceeded,          \* an api.endRun call of the run has resolved
    elapsed,               \* useState elapsed, in seconds
    pace,                  \* useState pace, in min/km, as <<numerator, denominator>>
    fgArg,                 \* arguments and result of a checked mergeCoords call
    bgArg,
    merged,
    merges,
    paceArg,               \* argument and result of a checked formatPace call
    formatted

handoverVars == <<lastRunResult, handedOver, summaryResult, endSucceeded>>

sessionVars == <<status, mounted, nav, lastAlert, initPc, hasTaskManager,
                 runIdRef, coordsRef, distanceRef, locationSubscription,
                 fgLive, bgTask, bgStopRequested, bgStore, bgHandlers,
                 bgInvocations, dialogs, submits, bgReads, handoverVars>>

formatVars == <<paceArg, formatted>>

metricVars == <<elapsed, pace, formatVars>>

mergeVars == <<fgArg, bgArg, merged, merges>>

vars == <<sessionVars, metricVars, mergeVars>>

\* Latitudes the location provider reports in a session, on one meridian.
\* The provider stamps the fixes of each stream in the order it takes them:
\* the k-th foreground fix and the k-th background fix both carry stamp k,
\* so the two streams overlap in time.
FixLats == {0, 4}
FixLngs == {1}
Positions == FixLats \X FixLngs
ForegroundLocation(p) == MkCoord(p[1], p[2], Len(coordsRef) + 1)
BackgroundLocation(p) == MkCoord(p[1], p[2], bgInvocations + 1)
\* what an earlier session can have left under the buffer key
Leftovers == {Absent} \cup {Stored(JSONStringify(<<MkCoord(p[1], p[2], 1)>>)) : p \in {0} \X FixLngs}
\* An earlier session's cleanup asks for the location updates to stop and
\* does not wait: a task invocation of that session can still be between its
\* read and its write, holding a sample of that session's run.
StaleFix == MkCoord(8, 1, 1)
PendingHandlers == {<<>>, <<<<StaleFix>>>>}

\* formatPace has not been called
NotFormatted == [text |-> ""]

\* no formatPace call under check
FormatIdle ==
    /\ paceArg = PaceZero
    /\ formatted = NotFormatted

\* no mergeCoords call under check
MergeIdle ==
    /\ fgArg = <<>>
    /\ bgArg = <<>>
    /\ merged = <<>>
    /\ merges = 0

\* state of a freshly mounted screen (useState / useRef initial values)
SessionInit ==
    /\ status = "requesting"
    /\ mounted = TRUE
    /\ nav = "none"
    /\ lastAlert = "none"
    /\ initPc = "perm"
    /\ runIdRef = FALSE
    /\ coordsRef = <<>>
    /\ distanceRef = 0
    /\ locationSubscription = FALSE
    /\ fgLive = FALSE
    /\ bgTask = "off"
    /\ bgStopRequested = FALSE
    /\ bgInvocations = 0
    /\ dialogs = 0
    /\ submits = <<>>
    /\ bgReads = 0
    /\ lastRunResult = Stored(StaleResult)
    /\ handedOver = NoResult
    /\ summaryResult = NoResult
    /\ endSucceeded = FALSE
    /\ elapsed = 0
    /\ pace = PaceZero

\* The screen is mounted on a native build (task manager present) or on the
\* web; the buffer key may hold what an earlier session left behind, and on
\* a native build a task invocation of that session may still be pending.
Init ==
    /\ SessionInit
    /\ FormatIdle
    /\ hasTaskManager \in BOOLEAN
    /\ bgStore \in Leftovers
    /\ bgHandlers \in IF hasTaskManager THEN PendingHandlers ELSE {<<>>}
    /\ MergeIdle

\* ------------------------------------------------------ shared fragments

\* setStatus of a component that has been unmounted changes nothing
SetStatus(s) == status' = IF mounted THEN s ELSE status

\* a cleanup that leaves the foreground subscription in place
CleanupKeepsSubscription ==
    /\ fgLive' = fgLive
    /\ bgStopRequested' = (bgStopRequested \/ hasTaskManager)
    /\ bgTask' = IF hasTaskManager /\ bgTask = "on" THEN "stopping" ELSE bgTask

\* cleanup(): remove the foreground subscription if the ref holds one, and
\* ask for the background updates to stop (not awaited; a request made
\* while no updates run is rejected and the rejection swallowed)
Cleanup ==
    /\ fgLive' = IF locationSubscription THEN FALSE ELSE fgLive
    /\ bgStopRequested' = (bgStopRequested \/ hasTaskManager)
    /\ bgTask' = IF hasTaskManager /\ bgTask = "on" THEN "stopping" ELSE bgTask

\* router.back() / router.replace(): the screen unmounts and the mount
\* effect's destructor runs cleanup
Leave(target) ==
    /\ nav' = target
    /\ mounted' = FALSE
    /\ IF mounted THEN Cleanup
       ELSE UNCHANGED <<fgLive, bgStopRequested, bgTask>>

\* a catch that shows the alert and stays on the screen
AbortInitNoBack ==
    /\ lastAlert' = "Error"
    /\ initPc' = "done"
    /\ UNCHANGED <<nav, mounted, fgLive, bgStopRequested, bgTask>>

\* catch (err) of initRun: Alert.alert('Error', ...); router.back()
AbortInit ==
    /\ lastAlert' = "Error"
    /\ initPc' = "done"
    /\ Leave("back")

\* ----------------------------------------------------------------- initRun

RequestPermissionGranted ==
    /\ initPc = "perm"
    /\ initPc' = "startRun"
    /\ UNCHANGED <<status, mounted, nav, lastAlert, hasTaskManager, runIdRef,
                   coordsRef, distanceRef, locationSubscription, fgLive,
                   bgTask, bgStopRequested, bgStore, bgHandlers,
                   bgInvocations, dialogs, submits, mergeVars, metricVars, bgReads, handoverVars>>

\* a denial after which initRun goes on to api.startRun
RequestPermissionDeniedNoReturn ==
    /\ initPc = "perm"
    /\ initPc' = "startRun"
    /\ lastAlert' = "Location Required"
    /\ UNCHANGED <<status, mounted, nav, hasTaskManager, runIdRef,
                   coordsRef, distanceRef, locationSubscription, fgLive,
                   bgTask, bgStopRequested, bgStore, bgHandlers,
                   bgInvocations, dialogs, submits, mergeVars, metricVars,
                   bgReads, handoverVars>>

\* permission not granted: the 'Location Required' alert, and initRun returns
RequestPermissionDenied ==
    /\ initPc = "perm"
    /\ initPc' = "denied"
    /\ lastAlert' = "Location Required"
    /\ UNCHANGED <<status, mounted, nav, hasTaskManager, runIdRef,
                   coordsRef, distanceRef, locationSubscription, fgLive,
                   bgTask, bgStopRequested, bgStore, bgHandlers,
                   bgInvocations, dialogs, submits, mergeVars, metricVars, bgReads, handoverVars>>

\* OK of the 'Location Required' alert: router.back()
DeniedAlertOk ==
    /\ initPc = "denied"
    /\ initPc' = "done"
    /\ Leave("back")
    /\ UNCHANGED <<status, lastAlert, hasTaskManager, runIdRef, coordsRef,
                   distanceRef, locationSubscription, bgStore, bgHandlers,
                   bgInvocations, dialogs, submits, mergeVars, metricVars, bgReads, handoverVars>>

StartRunOk ==
    /\ initPc = "startRun"
    /\ runIdRef' = TRUE
    /\ initPc' = "getFix"
    /\ UNCHANGED <<status, mounted, nav, lastAlert, hasTaskManager,
                   coordsRef, distanceRef, locationSubscription, fgLive,
                   bgTask, bgStopRequested, bgStore, bgHandlers,
                   bgInvocations, dialogs, submits, mergeVars, metricVars, bgReads, handoverVars>>

StartRunFail ==
    /\ initPc = "startRun"
    /\ AbortInit
    /\ UNCHANGED <<status, hasTaskManager, runIdRef, coordsRef,
                   distanceRef, locationSubscription, bgStore, bgHandlers,
                   bgInvocations, dialogs, submits, mergeVars, metricVars, bgReads, handoverVars>>

\* getCurrentPositionAsync resolved: the buffer starts with the initial fix
\* and removeItem(BG_BUFFER_KEY) is issued
GetFixOk(loc) ==
    /\ initPc = "getFix"
    /\ coordsRef' = <<loc>>
    /\ initPc' = "clearBg"
    /\ UNCHANGED <<status, mounted, nav, lastAlert, hasTaskManager, runIdRef,
                   distanceRef, locationSubscription, fgLive,
                   bgTask, bgStopRequested, bgStore, bgHandlers,
                   bgInvocations, dialogs, submits, mergeVars, metricVars, bgReads, handoverVars>>

GetFixFail ==
    /\ initPc = "getFix"
    /\ AbortInit
    /\ UNCHANGED <<status, hasTaskManager, runIdRef, coordsRef,
                   distanceRef, locationSubscription, bgStore, bgHandlers,
                   bgInvocations, dialogs, submits, mergeVars, metricVars, bgReads, handoverVars>>

\* removeItem done: startTimeRef, setStatus('active'), watchPositionAsync issued
ClearBgDone ==
    /\ initPc = "clearBg"
    /\ bgStore' = Absent
    /\ SetStatus("active")
    /\ initPc' = "watch"
    /\ UNCHANGED <<mounted, nav, lastAlert, hasTaskManager, runIdRef,
                   coordsRef, distanceRef, locationSubscription, fgLive,
                   bgTask, bgStopRequested, bgHandlers,
                   bgInvocations, dialogs, submits, mergeVars, metricVars, bgReads, handoverVars>>

\* removeItem rejected: the catch of initRun
ClearBgFail ==
    /\ initPc = "clearBg"
    /\ AbortInit
    /\ UNCHANGED <<status, hasTaskManager, runIdRef, coordsRef,
                   distanceRef, locationSubscription, bgStore, bgHandlers,
                   bgInvocations, dialogs, submits, mergeVars, metricVars,
                   bgReads, handoverVars>>

\* watchPositionAsync resolved: the ref holds the subscription; on a native
\* build the background permission is asked for next
WatchResolved ==
    /\ initPc = "watch"
    /\ locationSubscription' = TRUE
    /\ fgLive' = TRUE
    /\ initPc' = IF hasTaskManager THEN "bgPerm" ELSE "done"
    /\ UNCHANGED <<status, mounted, nav, lastAlert, hasTaskManager, runIdRef,
                   coordsRef, distanceRef, bgTask, bgStopRequested, bgStore,
                   bgHandlers, bgInvocations, dialogs, submits, mergeVars, metricVars, bgReads, handoverVars>>

WatchFail ==
    /\ initPc = "watch"
    /\ AbortInit
    /\ UNCHANGED <<status, hasTaskManager, runIdRef, coordsRef,
                   distanceRef, locationSubscription, bgStore, bgHandlers,
                   bgInvocations, dialogs, submits, mergeVars, metricVars, bgReads, handoverVars>>

BgPermissionGranted ==
    /\ initPc = "bgPerm"
    /\ initPc' = "bgStart"
    /\ UNCHANGED <<status, mounted, nav, lastAlert, hasTaskManager, runIdRef,
                   coordsRef, distanceRef, locationSubscription, fgLive,
                   bgTask, bgStopRequested, bgStore, bgHandlers,
                   bgInvocations, dialogs, submits, mergeVars, metricVars, bgReads, handoverVars>>

\* permission denied, or the request threw: logged, foreground only
BgPermissionRefused ==
    /\ initPc = "bgPerm"
    /\ initPc' = "done"
    /\ UNCHANGED <<status, mounted, nav, lastAlert, hasTaskManager, runIdRef,
                   coordsRef, distanceRef, locationSubscription, fgLive,
                   bgTask, bgStopRequested, bgStore, bgHandlers,
                   bgInvocations, dialogs, submits, mergeVars, metricVars, bgReads, handoverVars>>

BgStartOk ==
    /\ initPc = "bgStart"
    /\ bgTask' = "on"
    /\ initPc' = "done"
    /\ UNCHANGED <<status, mounted, nav, lastAlert, hasTaskManager, runIdRef,
                   coordsRef, distanceRef, locationSubscription, fgLive,
                   bgStopRequested, bgStore, bgHandlers,
                   bgInvocations, dialogs, submits, mergeVars, metricVars, bgReads, handoverVars>>

\* a failed start of the background updates treated like any other failure
BgStartFailFatal ==
    /\ initPc = "bgStart"
    /\ AbortInit
    /\ UNCHANGED <<status, hasTaskManager, runIdRef, coordsRef,
                   distanceRef, locationSubscription, bgStore, bgHandlers,
                   bgInvocations, dialogs, submits, mergeVars, metricVars,
                   bgReads, handoverVars>>

\* startLocationUpdatesAsync rejected: logged, foreground only
BgStartFail ==
    /\ initPc = "bgStart"
    /\ initPc' = "done"
    /\ UNCHANGED <<status, mounted, nav, lastAlert, hasTaskManager, runIdRef,
                   coordsRef, distanceRef, locationSubscription, fgLive,
                   bgTask, bgStopRequested, bgStore, bgHandlers,
                   bgInvocations, dialogs, submits, mergeVars, metricVars, bgReads, handoverVars>>

\* ------------------------------------------------- location callbacks

\* what the watchPositionAsync callback adds to distanceRef for a new fix
FixDistanceFromFirst(coords, newCoord) ==
    IF Len(coords) > 0
    THEN haversineDistance(LngLat(coords[1]), LngLat(newCoord))
    ELSE 0

\* a distance that is negative for a fix to the south of the last sample
FixDistanceSigned(coords, newCoord) ==
    IF Len(coords) > 0
    THEN UnitMm * (newCoord.latitude - coords[Len(coords)].latitude)
    ELSE 0

FixDistance(coords, newCoord) ==
    IF Len(coords) > 0
    THEN haversineDistance(LngLat(coords[Len(coords)]), LngLat(newCoord))
    ELSE 0

\* the callback of watchPositionAsync; it runs as long as the provider
\* delivers, mounted screen or not
ForegroundFix(newCoord) ==
    /\ fgLive
    /\ Len(coordsRef) < MaxFg
    /\ distanceRef' = distanceRef + FixDistance(coordsRef, newCoord)
    /\ coordsRef' = Append(coordsRef, newCoord)
    /\ UNCHANGED <<status, mounted, nav, lastAlert, initPc, hasTaskManager,
                   runIdRef, locationSubscription, fgLive, bgTask,
                   bgStopRequested, bgStore, bgHandlers, bgInvocations,
                   dialogs, submits, mergeVars, metricVars, bgReads, handoverVars>>

\* the reduce of the timer effect / calculateRouteDistance: the sum of the
\* distances between consecutive samples, recomputed from the buffer
RECURSIVE RouteDistance(_)
RouteDistance(coords) ==
    IF Len(coords) <= 1 THEN 0
    ELSE RouteDistance(SubSeq(coords, 1, Len(coords) - 1))
         + haversineDistance(LngLat(coords[Len(coords) - 1]),
                             LngLat(coords[Len(coords)]))

\* batches of locations one task invocation can carry
Batches == {<<>>} \cup {<<BackgroundLocation(p)>> : p \in Positions}

\* for (const loc of locations) buffer.push({latitude, longitude, timestamp})
PushAll(buffer, locations) ==
    buffer \o [i \in 1..Len(locations) |->
                 MkCoord(locations[i].latitude, locations[i].longitude,
                         locations[i].timestamp)]

RemoveAt(seq, i) == SubSeq(seq, 1, i - 1) \o SubSeq(seq, i + 1, Len(seq))

\* a task handler that also pushes what it is given on the screen's buffer
BgTaskReadSharesBuffer(locations) ==
    /\ bgTask \in {"on", "stopping"}
    /\ bgInvocations < MaxBg
    /\ bgInvocations' = bgInvocations + 1
    /\ bgHandlers' = Append(bgHandlers, PushAll(ExistingBuffer(bgStore), locations))
    /\ coordsRef' = PushAll(coordsRef, locations)
    /\ UNCHANGED <<status, mounted, nav, lastAlert, initPc, hasTaskManager,
                   runIdRef, distanceRef, locationSubscription,
                   fgLive, bgTask, bgStopRequested, bgStore, dialogs,
                   submits, mergeVars, metricVars, bgReads, handoverVars>>

\* BACKGROUND_LOCATION_TASK invoked with data: getItem has read the buffer
\* and the invocation holds the extended copy it is about to write.  The
\* task runs until a requested stop has completed.
BgTaskInvoke(locations, most) ==
    /\ bgTask \in {"on", "stopping"}
    /\ bgInvocations < most
    /\ bgInvocations' = bgInvocations + 1
    /\ bgHandlers' = Append(bgHandlers, PushAll(ExistingBuffer(bgStore), locations))
    /\ UNCHANGED <<status, mounted, nav, lastAlert, initPc, hasTaskManager,
                   runIdRef, coordsRef, distanceRef, locationSubscription,
                   fgLive, bgTask, bgStopRequested, bgStore, dialogs,
                   submits, mergeVars, metricVars, bgReads, handoverVars>>

BgTaskRead(locations) == BgTaskInvoke(locations, MaxBg)

\* setItem(BG_BUFFER_KEY, JSON.stringify(buffer)) of invocation h
BgTaskWrite(h) ==
    /\ h \in DOMAIN bgHandlers
    /\ bgStore' = Stored(JSONStringify(bgHandlers[h]))
    /\ bgHandlers' = RemoveAt(bgHandlers, h)
    /\ submits' = [i \in DOMAIN submits |-> [submits[i] EXCEPT !.taskWrote = TRUE]]
    /\ UNCHANGED <<status, mounted, nav, lastAlert, initPc, hasTaskManager,
                   runIdRef, coordsRef, distanceRef, locationSubscription,
                   fgLive, bgTask, bgStopRequested, bgInvocations, dialogs,
                   mergeVars, metricVars, bgReads, handoverVars>>

\* the stop asked for by stopLocationUpdatesAsync has taken effect
BgStopComplete ==
    /\ bgTask = "stopping"
    /\ bgTask' = "off"
    /\ UNCHANGED <<status, mounted, nav, lastAlert, initPc, hasTaskManager,
                   runIdRef, coordsRef, distanceRef, locationSubscription,
                   fgLive, bgStopRequested, bgStore, bgHandlers,
                   bgInvocations, dialogs, submits, mergeVars, metricVars, bgReads, handoverVars>>

\* a tick that sets the pace whenever the clock has advanced
TickAnyDistance(secs) ==
    /\ mounted
    /\ status = "active"
    /\ secs >= elapsed
    /\ elapsed' = secs
    /\ pace' = IF secs > 0 THEN PaceOf(secs, distanceRef) ELSE pace
    /\ UNCHANGED <<sessionVars, mergeVars, formatVars>>

\* the setInterval callback of the timer effect.  The interval exists while
\* the mounted screen's status is active (startTimeRef is set just before
\* the status becomes active); secs is the whole number of seconds since
\* the start, which never runs backwards.
Tick(secs) ==
    /\ mounted
    /\ status = "active"
    /\ secs >= elapsed
    /\ elapsed' = secs
    /\ pace' = IF distanceRef > 0 /\ secs > 0 THEN PaceOf(secs, distanceRef)
                ELSE pace
    /\ UNCHANGED <<sessionVars, mergeVars, formatVars>>

\* ------------------------------------------------------------------- stop

\* fewest samples handleStopRun accepts
MinStopSamples == 2

\* handleStopRun without the test of the buffer length
handleStopRunUnguarded ==
    /\ mounted
    /\ status = "active"
    /\ dialogs < MaxDialogs
    /\ lastAlert' = "Stop Run?"
    /\ dialogs' = dialogs + 1
    /\ UNCHANGED <<status, mounted, nav, initPc, hasTaskManager, runIdRef,
                   coordsRef, distanceRef, locationSubscription, fgLive,
                   bgTask, bgStopRequested, bgStore, bgHandlers,
                   bgInvocations, submits, mergeVars, metricVars, bgReads, handoverVars>>

\* handleStopRun turning away only an empty buffer
handleStopRunNonEmpty ==
    /\ mounted
    /\ status = "active"
    /\ IF Len(coordsRef) < 1
       THEN /\ lastAlert' = "Too Short"
            /\ dialogs' = dialogs
       ELSE /\ dialogs < MaxDialogs
            /\ lastAlert' = "Stop Run?"
            /\ dialogs' = dialogs + 1
    /\ UNCHANGED <<status, mounted, nav, initPc, hasTaskManager, runIdRef,
                   coordsRef, distanceRef, locationSubscription, fgLive,
                   bgTask, bgStopRequested, bgStore, bgHandlers,
                   bgInvocations, submits, mergeVars, metricVars, bgReads, handoverVars>>

\* STOP RUN pressed (the button is rendered while the status is active)
handleStopRun ==
    /\ mounted
    /\ status = "active"
    /\ IF Len(coordsRef) < MinStopSamples
       THEN /\ lastAlert' = "Too Short"
            /\ dialogs' = dialogs
       ELSE /\ dialogs < MaxDialogs
            /\ lastAlert' = "Stop Run?"
            /\ dialogs' = dialogs + 1
    /\ UNCHANGED <<status, mounted, nav, initPc, hasTaskManager, runIdRef,
                   coordsRef, distanceRef, locationSubscription, fgLive,
                   bgTask, bgStopRequested, bgStore, bgHandlers,
                   bgInvocations, submits, mergeVars, metricVars, bgReads, handoverVars>>

\* 'Keep Running' of a 'Stop Run?' alert
KeepRunning ==
    /\ dialogs > 0
    /\ dialogs' = dialogs - 1
    /\ UNCHANGED <<status, mounted, nav, lastAlert, initPc, hasTaskManager,
                   runIdRef, coordsRef, distanceRef, locationSubscription,
                   fgLive, bgTask, bgStopRequested, bgStore, bgHandlers,
                   bgInvocations, submits, mergeVars, metricVars, bgReads, handoverVars>>

Unread == [kind |-> "unread"]
ReadError == [kind |-> "error"]
ReadItem(item) == [kind |-> "item", item |-> item]

\* A submitRun call in progress: where it is suspended (pc), its local
\* allCoords and, for the record, the foreground buffer it started from
\* (fg0), what its getItem returned (bgSeen) and whether a task invocation
\* has written the buffer since the call began (taskWrote).
NewSubmit ==
    [pc |-> "read", allCoords |-> coordsRef, fg0 |-> coordsRef,
     bgSeen |-> Unread, taskWrote |-> FALSE]

\* 'Stop & Save': submitRun up to its first await (getItem issued)
submitRun ==
    /\ dialogs > 0
    /\ dialogs' = dialogs - 1
    /\ Len(submits) < MaxSubmits
    /\ runIdRef
    /\ SetStatus("stopping")
    /\ Cleanup
    /\ bgReads < MaxReads
    /\ bgReads' = bgReads + 1
    /\ submits' = Append(submits, NewSubmit)
    /\ UNCHANGED <<mounted, nav, lastAlert, initPc, hasTaskManager,
                   runIdRef, coordsRef, distanceRef, locationSubscription,
                   bgStore, bgHandlers, bgInvocations, mergeVars, metricVars,
                   handoverVars>>

\* allCoords when the merge is run whatever getItem returned
MergedAlways(allCoords, bgRaw) == mergeCoords(allCoords, ExistingBuffer(bgRaw))

\* allCoords after getItem returned bgRaw
MergedWith(allCoords, bgRaw) ==
    IF Truthy(bgRaw) THEN mergeCoords(allCoords, JSONParse(bgRaw.raw))
    ELSE allCoords

\* a submitRun that keeps the merged route in the screen's buffer
SubmitReadInPlace(i) ==
    /\ i \in DOMAIN submits
    /\ submits[i].pc = "read"
    /\ LET all == MergedWith(submits[i].allCoords, bgStore)
       IN  /\ submits' = [submits EXCEPT ![i] =
                  [@ EXCEPT !.allCoords = all,
                            !.bgSeen = ReadItem(bgStore),
                            !.pc = IF Truthy(bgStore) THEN "remove" ELSE "endRun"]]
           /\ coordsRef' = all
    /\ UNCHANGED <<status, mounted, nav, lastAlert, initPc, hasTaskManager,
                   runIdRef, distanceRef, locationSubscription,
                   fgLive, bgTask, bgStopRequested, bgStore, bgHandlers,
                   bgInvocations, dialogs, mergeVars, metricVars, bgReads,
                   handoverVars>>

\* getItem resolved: merge and issue removeItem when there is a buffer,
\* else call endRun with the foreground coordinates
SubmitRead(i) ==
    /\ i \in DOMAIN submits
    /\ submits[i].pc = "read"
    /\ LET all == MergedWith(submits[i].allCoords, bgStore)
       IN  submits' = [submits EXCEPT ![i] =
               [@ EXCEPT !.allCoords = all,
                         !.bgSeen = ReadItem(bgStore),
                         !.pc = IF Truthy(bgStore) THEN "remove" ELSE "endRun"]]
    /\ UNCHANGED <<status, mounted, nav, lastAlert, initPc, hasTaskManager,
                   runIdRef, coordsRef, distanceRef, locationSubscription,
                   fgLive, bgTask, bgStopRequested, bgStore, bgHandlers,
                   bgInvocations, dialogs, mergeVars, metricVars, bgReads, handoverVars>>

\* getItem rejected: logged, endRun is called with the foreground coordinates
SubmitReadError(i) ==
    /\ i \in DOMAIN submits
    /\ submits[i].pc = "read"
    /\ submits' = [submits EXCEPT ![i] =
           [@ EXCEPT !.bgSeen = ReadError, !.pc = "endRun"]]
    /\ UNCHANGED <<status, mounted, nav, lastAlert, initPc, hasTaskManager,
                   runIdRef, coordsRef, distanceRef, locationSubscription,
                   fgLive, bgTask, bgStopRequested, bgStore, bgHandlers,
                   bgInvocations, dialogs, mergeVars, metricVars, bgReads, handoverVars>>

\* removeItem done: endRun is called with the merged coordinates
SubmitRemoved(i) ==
    /\ i \in DOMAIN submits
    /\ submits[i].pc = "remove"
    /\ bgStore' = Absent
    /\ submits' = [submits EXCEPT ![i] = [@ EXCEPT !.pc = "endRun"]]
    /\ UNCHANGED <<status, mounted, nav, lastAlert, initPc, hasTaskManager,
                   runIdRef, coordsRef, distanceRef, locationSubscription,
                   fgLive, bgTask, bgStopRequested, bgHandlers,
                   bgInvocations, dialogs, mergeVars, metricVars, bgReads, handoverVars>>

\* removeItem rejected: logged, endRun is called with the merged coordinates
SubmitRemoveError(i) ==
    /\ i \in DOMAIN submits
    /\ submits[i].pc = "remove"
    /\ submits' = [submits EXCEPT ![i] = [@ EXCEPT !.pc = "endRun"]]
    /\ UNCHANGED <<status, mounted, nav, lastAlert, initPc, hasTaskManager,
                   runIdRef, coordsRef, distanceRef, locationSubscription,
                   fgLive, bgTask, bgStopRequested, bgStore, bgHandlers,
                   bgInvocations, dialogs, mergeVars, metricVars, bgReads,
                   handoverVars>>

\* the coordinates of the endRun request in flight of submitRun call s
Route(s) == GeoCoords(s.allCoords)

\* endRun rejected: Alert.alert('Error', ...); setStatus('active')
EndRunFail(i) ==
    /\ i \in DOMAIN submits
    /\ submits[i].pc = "endRun"
    /\ lastAlert' = "Error"
    /\ SetStatus("active")
    /\ submits' = RemoveAt(submits, i)
    /\ UNCHANGED <<mounted, nav, initPc, hasTaskManager, runIdRef, coordsRef,
                   distanceRef, locationSubscription, fgLive, bgTask,
                   bgStopRequested, bgStore, bgHandlers, bgInvocations,
                   dialogs, mergeVars, metricVars, bgReads, handoverVars>>

\* endRun resolved: setItem('last_run_result', ...) issued
EndRunOk(i) ==
    /\ i \in DOMAIN submits
    /\ submits[i].pc = "endRun"
    /\ submits' = [submits EXCEPT ![i] = [@ EXCEPT !.pc = "save"]]
    /\ endSucceeded' = TRUE
    /\ UNCHANGED <<status, mounted, nav, lastAlert, initPc, hasTaskManager,
                   runIdRef, coordsRef, distanceRef, locationSubscription,
                   fgLive, bgTask, bgStopRequested, bgStore, bgHandlers,
                   bgInvocations, dialogs, mergeVars, metricVars, bgReads,
                   lastRunResult, handedOver, summaryResult>>

\* what api.endRun resolves to for the request of submitRun call s
Result(s) == RunResult(Route(s))

\* a submitRun that opens the summary without having stored the result
ResultSavedNoWrite(i) ==
    /\ i \in DOMAIN submits
    /\ submits[i].pc = "save"
    /\ lastRunResult' = lastRunResult
    /\ handedOver' = Result(submits[i])
    /\ summaryResult' = NoResult
    /\ Leave("summary")
    /\ submits' = RemoveAt(submits, i)
    /\ UNCHANGED <<status, lastAlert, initPc, hasTaskManager, runIdRef,
                   coordsRef, distanceRef, locationSubscription, bgStore,
                   bgHandlers, bgInvocations, dialogs, mergeVars, metricVars,
                   bgReads, endSucceeded>>

\* setItem done: the result is stored and router.replace('/run/summary')
\* puts a new summary screen in place of the current screen
ResultSaved(i) ==
    /\ i \in DOMAIN submits
    /\ submits[i].pc = "save"
    /\ lastRunResult' = Stored(StringifyResult(Result(submits[i])))
    /\ handedOver' = Result(submits[i])
    /\ summaryResult' = NoResult
    /\ Leave("summary")
    /\ submits' = RemoveAt(submits, i)
    /\ UNCHANGED <<status, lastAlert, initPc, hasTaskManager, runIdRef,
                   coordsRef, distanceRef, locationSubscription, bgStore,
                   bgHandlers, bgInvocations, dialogs, mergeVars, metricVars,
                   bgReads, endSucceeded>>

\* setItem rejected: the catch of submitRun, as for a rejected endRun
ResultSaveFail(i) ==
    /\ i \in DOMAIN submits
    /\ submits[i].pc = "save"
    /\ lastAlert' = "Error"
    /\ SetStatus("active")
    /\ submits' = RemoveAt(submits, i)
    /\ UNCHANGED <<mounted, nav, initPc, hasTaskManager, runIdRef, coordsRef,
                   distanceRef, locationSubscription, fgLive, bgTask,
                   bgStopRequested, bgStore, bgHandlers, bgInvocations,
                   dialogs, mergeVars, metricVars, bgReads, handoverVars>>

\* loadResult of the summary screen: getItem('last_run_result') resolved
loadResult ==
    /\ nav = "summary"
    /\ summaryResult = NoResult
    /\ Truthy(lastRunResult)
    /\ summaryResult' = ParseResult(lastRunResult.raw)
    /\ UNCHANGED <<status, mounted, nav, lastAlert, initPc, hasTaskManager,
                   runIdRef, coordsRef, distanceRef, locationSubscription,
                   fgLive, bgTask, bgStopRequested, bgStore, bgHandlers,
                   bgInvocations, dialogs, submits, bgReads, lastRunResult,
                   handedOver, endSucceeded, mergeVars, metricVars>>

\* the screen is removed from outside (hardware back): the mount effect's
\* destructor runs cleanup
Unmount ==
    /\ mounted
    /\ mounted' = FALSE
    /\ Cleanup
    /\ UNCHANGED <<status, nav, lastAlert, initPc, hasTaskManager, runIdRef,
                   coordsRef, distanceRef, locationSubscription, bgStore,
                   bgHandlers, bgInvocations, dialogs, submits, mergeVars, metricVars, bgReads, handoverVars>>

Next ==
    \/ RequestPermissionGranted
    \/ RequestPermissionDenied
    \/ DeniedAlertOk
    \/ StartRunOk
    \/ StartRunFail
    \/ \E p \in Positions : GetFixOk(ForegroundLocation(p))
    \/ GetFixFail
    \/ ClearBgDone
    \/ ClearBgFail
    \/ WatchResolved
    \/ WatchFail
    \/ BgPermissionGranted
    \/ BgPermissionRefused
    \/ BgStartOk
    \/ BgStartFail
    \/ \E p \in Positions : ForegroundFix(ForegroundLocation(p))
    \/ \E locations \in Batches : BgTaskRead(locations)
    \/ \E h \in 1..(MaxBg + 1) : BgTaskWrite(h)
    \/ BgStopComplete
    \/ handleStopRun
    \/ KeepRunning
    \/ submitRun
    \/ \E i \in 1..MaxSubmits : SubmitRead(i)
    \/ \E i \in 1..MaxSubmits : SubmitReadError(i)
    \/ \E i \in 1..MaxSubmits : SubmitRemoved(i)
    \/ \E i \in 1..MaxSubmits : SubmitRemoveError(i)
    \/ \E i \in 1..MaxSubmits : EndRunFail(i)
    \/ \E i \in 1..MaxSubmits : EndRunOk(i)
    \/ \E i \in 1..MaxSubmits : ResultSaved(i)
    \/ \E i \in 1..MaxSubmits : ResultSaveFail(i)
    \/ loadResult
    \/ Unmount

Spec == Init /\ [][Next]_vars

\* The session with its clock.  A tick changes elapsed and pace only, which
\* no other action reads, so Spec is this specification seen without them.
NextMetrics ==
    \/ Next
    \/ \E secs \in 0..MaxElapsed : Tick(secs)

SpecMetrics == Init /\ [][NextMetrics]_vars

\* ------------------------------------- the background task on its own

\* A native session after initRun has completed with the background
\* updates started: the buffer removed, the initial fix in the foreground
\* buffer, no task invocation yet.
InitHandlers ==
    /\ status = "active"
    /\ mounted = TRUE
    /\ nav = "none"
    /\ lastAlert = "none"
    /\ initPc = "done"
    /\ hasTaskManager = TRUE
    /\ runIdRef = TRUE
    /\ coordsRef \in {<<MkCoord(p[1], p[2], 1)>> : p \in Positions}
    /\ distanceRef = 0
    /\ locationSubscription = TRUE
    /\ fgLive = TRUE
    /\ bgTask = "on"
    /\ bgStopRequested = FALSE
    /\ bgStore = Absent
    /\ bgHandlers = <<>>
    /\ bgInvocations = 0
    /\ dialogs = 0
    /\ submits = <<>>
    /\ bgReads = 0
    /\ lastRunResult = Stored(StaleResult)
    /\ handedOver = NoResult
    /\ summaryResult = NoResult
    /\ endSucceeded = FALSE
    /\ elapsed = 0
    /\ pace = PaceZero
    /\ FormatIdle
    /\ MergeIdle

\* The task is invoked whenever the system has locations for it; an
\* invocation can begin while an earlier one awaits its getItem or setItem.
NextHandlers ==
    \/ \E locations \in Batches : BgTaskInvoke(locations, MaxOverlap)
    \/ \E h \in 1..MaxOverlap : BgTaskWrite(h)
    \/ \E p \in Positions : ForegroundFix(ForegroundLocation(p))

SpecHandlers == InitHandlers /\ [][NextHandlers]_vars

\* ------------------------------------------- mergeCoords on its own

\* samples a checked call is given: three latitudes 2.2 m apart, with a
\* timestamp or without one
MergeLats == {0, 2, 4}
MergeStamps == {1, 2}
MergeCoordSet ==
    {MkCoord(lat, lng, ts) : lat \in MergeLats, lng \in FixLngs, ts \in MergeStamps}
    \cup {MkCoordNoTs(lat, lng) : lat \in MergeLats, lng \in FixLngs}

SeqsUpTo(S, n) == UNION {[1..k -> S] : k \in 0..n}

\* the screen is not in use; a pair of buffers is about to be merged
InitMerge ==
    /\ SessionInit
    /\ FormatIdle
    /\ hasTaskManager = FALSE
    /\ bgStore = Absent
    /\ bgHandlers = <<>>
    /\ fgArg \in SeqsUpTo(MergeCoordSet, MaxFgLen)
    /\ bgArg \in SeqsUpTo(MergeCoordSet, MaxBgLen)
    /\ Len(fgArg) + Len(bgArg) <= MaxTotalLen
    /\ merged = <<>>
    /\ merges = 0

\* merged = mergeCoords(fgArg, bgArg); the arrays are passed by reference
MergeCall ==
    /\ merges < MaxMerges
    /\ merges' = merges + 1
    /\ merged' = mergeCoords(fgArg, bgArg)
    /\ fgArg' = ForegroundAfterMerge(fgArg, bgArg)
    /\ bgArg' = BackgroundAfterMerge(fgArg, bgArg)
    /\ UNCHANGED <<sessionVars, metricVars>>

NextMerge == MergeCall

SpecMerge == InitMerge /\ [][NextMerge]_vars

\* -------------------------------------------- formatPace on its own

\* Paces the screens hand to formatPace: the timer's (secs / 60) / distance
\* for a whole number of seconds at a distance of 4 km, which includes 0
\* (the initial state and the summary's `avgPaceMinPerKm || 0`), and a
\* negative value.
PaceValues ==
    {Divide(secs, 60 * 4) : secs \in 0..MaxPaceSecs} \cup {Divide(0 - 1, 1)}

\* the screen is not in use; a pace is about to be formatted
InitPace ==
    /\ SessionInit
    /\ hasTaskManager = FALSE
    /\ bgStore = Absent
    /\ bgHandlers = <<>>
    /\ MergeIdle
    /\ paceArg \in PaceValues
    /\ formatted = NotFormatted

\* formatted = formatPace(paceArg)
FormatCall ==
    /\ formatted = NotFormatted
    /\ formatted' = formatPace(paceArg)
    /\ UNCHANGED <<sessionVars, elapsed, pace, paceArg, mergeVars>>

NextPace == FormatCall

SpecPace == InitPace /\ [][NextPace]_vars

\* ------------------------------------------------------------ properties

\* the state of the session as the specification names it: the status of
\* the screen until the screen itself navigates away
SessionState ==
    CASE nav = "back" -> "aborted"
      [] nav = "summary" -> "success"
      [] OTHER -> status

InFlight(pc) == {i \in DOMAIN submits : submits[i].pc = pc}

\* C1 (as claimed): when endRun fails on a mounted screen, the status is
\* active again and both buffers hold what they held before the stop was
\* confirmed: the foreground buffer what submitRun started from, the
\* durable background buffer the samples submitRun read, no task
\* invocation having written in between.
C1_FailedStopKeepsBuffers ==
    [][\A i \in 1..MaxSubmits :
         (/\ EndRunFail(i)
          /\ mounted
          /\ submits[i].bgSeen.kind = "item"
          /\ ~submits[i].taskWrote)
         => (/\ status' = "active"
             /\ coordsRef' = submits[i].fg0
             /\ ExistingBuffer(bgStore') = ExistingBuffer(submits[i].bgSeen.item))]_vars

\* C2: a stop request made with fewer than 2 foreground samples leaves the
\* status active, changes no buffer, opens no confirmation and starts no
\* submission.
C2_ShortStopRejected ==
    [][(handleStopRun /\ Len(coordsRef) < 2)
         => (/\ status' = "active"
             /\ coordsRef' = coordsRef
             /\ bgStore' = bgStore
             /\ dialogs' = dialogs
             /\ submits' = submits)]_vars

C2_Witness ==
    /\ lastAlert = "Too Short"
    /\ status = "active"
    /\ Len(coordsRef) = 1
    /\ dialogs = 0
    /\ submits = <<>>

\* C3: a foreground buffer of 2 or more samples merges to a route of 2 or
\* more points, and when sorting and deduplicating leaves fewer than 2
\* points the route is the foreground buffer itself.
C3_FallbackLaw ==
    (merges >= 1 /\ Len(fgArg) >= 2)
        => /\ Len(merged) >= 2
           /\ (Len(MergeResult(fgArg, bgArg)) < 2 => merged = fgArg)

C3_Witness ==
    /\ merges >= 1
    /\ Len(fgArg) >= 2
    /\ Len(bgArg) >= 1
    /\ Len(MergeResult(fgArg, bgArg)) < 2
    /\ merged = fgArg

\* what submitRun's getItem returned, as a buffer (nothing for null)
SeenBuffer(s) == ExistingBuffer(s.bgSeen.item)

RECURSIVE KeptAfter(_, _)
KeptAfter(last, rest) ==
    IF rest = <<>> THEN <<>>
    ELSE IF haversineDistance(LngLat(last), LngLat(Head(rest))) > 3000
         THEN <<Head(rest)>> \o KeptAfter(Head(rest), Tail(rest))
         ELSE KeptAfter(last, Tail(rest))

ThresholdDedup(samples) ==
    IF samples = <<>> THEN <<>>
    ELSE <<Head(samples)>> \o KeptAfter(Head(samples), Tail(samples))

\* C5 (as claimed): merging a foreground buffer with an empty background
\* buffer gives the 3 m dedup of the foreground buffer.
C5_EmptyBackgroundIsDedup ==
    (merges >= 1 /\ bgArg = <<>>) => merged = ThresholdDedup(fgArg)

\* C5 (amended): merging a foreground buffer with an empty background
\* buffer gives the 3 m dedup of the foreground buffer taken in ascending
\* timestamp order when that dedup has 2 or more points, and the foreground
\* buffer unchanged otherwise.
C5_EmptyBackgroundIsSortedDedupOrFallback ==
    (merges >= 1 /\ bgArg = <<>>)
        => merged = IF Len(ThresholdDedup(SortByTimestamp(fgArg))) >= 2
                    THEN ThresholdDedup(SortByTimestamp(fgArg))
                    ELSE fgArg

C5_Witness ==
    /\ merges >= 1
    /\ bgArg = <<>>
    /\ Len(fgArg) = 3
    /\ Len(merged) = 2
    /\ fgArg = SortByTimestamp(fgArg)

C7_RouteHasTwoPoints ==
    \A i \in InFlight("endRun") : Len(Route(submits[i])) >= 2

C7_Witness ==
    \E i \in InFlight("endRun") :
        /\ submits[i].bgSeen.kind = "item"
        /\ Truthy(submits[i].bgSeen.item)
        /\ Len(MergeResult(submits[i].fg0, SeenBuffer(submits[i]))) < 2
        /\ Len(Route(submits[i])) = 2

\* C8: the running sum kept by the foreground callback equals the sum of
\* the distances between consecutive samples recomputed from the buffer.
C8_DistanceIsRouteSum == distanceRef = RouteDistance(coordsRef)

C8_Witness ==
    /\ Len(coordsRef) = 3
    /\ coordsRef[1].latitude = coordsRef[3].latitude
    /\ coordsRef[1].latitude # coordsRef[2].latitude
    /\ distanceRef > 0

StatusEdges ==
    {<<"requesting", "active">>, <<"active", "stopping">>,
     <<"stopping", "success">>, <<"stopping", "active">>,
     <<"requesting", "aborted">>}

\* C9 (as claimed): the session state changes only from requesting to
\* active, active to stopping, stopping to success, stopping to active and
\* requesting to aborted.
C9_OnlyListedEdges ==
    [][SessionState' # SessionState
         => <<SessionState, SessionState'>> \in StatusEdges]_vars

\* C10: while a submitRun call has its read of the background buffer still
\* ahead, the foreground subscription is removed and, where there is a
\* background task, its stop has been requested.
C10_CleanupBeforeRead ==
    \A i \in InFlight("read") :
        /\ ~fgLive
        /\ hasTaskManager => bgStopRequested

C10_Witness ==
    \E i \in InFlight("read") :
        /\ ~fgLive
        /\ bgStopRequested
        /\ bgTask = "stopping"
        /\ Truthy(bgStore)

\* a step of the background location task: an invocation reading the
\* buffer, or one writing it back
BgTaskStep ==
    \/ \E locations \in Batches : BgTaskRead(locations)
    \/ \E h \in 1..(MaxBg + 1) : BgTaskWrite(h)

\* C11: a step of the background location task leaves the foreground
\* buffer, the cumulative distance, the elapsed time, the pace and the
\* status as they are, whatever foreground fixes and ticks came before it.
C11_BgTaskTouchesOnlyStore ==
    [][BgTaskStep => UNCHANGED <<coordsRef, distanceRef, elapsed, pace, status>>]_vars

C11_Witness ==
    /\ Truthy(bgStore)
    /\ Len(ExistingBuffer(bgStore)) >= 1
    /\ bgInvocations >= 1
    /\ status = "active"
    /\ Len(coordsRef) >= 2
    /\ distanceRef > 0
    /\ elapsed > 0
    /\ \A k \in 1..Len(ExistingBuffer(bgStore)) :
           ExistingBuffer(bgStore)[k].latitude # coordsRef[Len(coordsRef)].latitude

\* C12 (as claimed): the screen reads the background buffer at most once
\* in a session, and not before a stop has been confirmed.
C12_BufferReadOnce ==
    /\ bgReads <= 1
    /\ status = "requesting" => bgReads = 0

\* C13 (as claimed): the background buffer is empty when the status becomes
\* active and when the background updates begin, and it is empty when the
\* removal that follows a merge is done.
C13_BufferClearedAtStartAndAfterMerge ==
    [][/\ (ClearBgDone \/ BgStartOk) => ~Truthy(bgStore')
       /\ \A i \in 1..MaxSubmits : SubmitRemoved(i) => ~Truthy(bgStore')]_vars

\* C14: once the foreground permission has been denied, api.startRun is not
\* called, no fix is asked for, no foreground or background subscription
\* exists and the status is never active.
C14_DeniedStartsNothing ==
    lastAlert = "Location Required"
        => /\ initPc \in {"denied", "done"}
           /\ ~runIdRef
           /\ coordsRef = <<>>
           /\ ~locationSubscription
           /\ ~fgLive
           /\ bgTask = "off"
           /\ status = "requesting"
           /\ submits = <<>>

C14_Witness ==
    /\ lastAlert = "Location Required"
    /\ initPc = "done"
    /\ nav = "back"
    /\ ~mounted

\* initRun has ended without a first fix and not by a denied permission:
\* api.startRun or getCurrentPositionAsync failed
StartFailed ==
    /\ initPc = "done"
    /\ coordsRef = <<>>
    /\ lastAlert # "Location Required"

\* C15: when api.startRun or the initial fix fails, the status is never
\* active, no foreground or background subscription is started, and the
\* screen goes back to its caller with an error alert.
C15_StartFailureAborts ==
    StartFailed
        => /\ status = "requesting"
           /\ ~locationSubscription
           /\ ~fgLive
           /\ bgTask = "off"
           /\ lastAlert = "Error"
           /\ nav = "back"
           /\ ~mounted
           /\ submits = <<>>

C15_Witness ==
    /\ StartFailed
    /\ runIdRef
    /\ nav = "back"

\* the ways the background subscription fails to begin: no task manager,
\* permission refused, startLocationUpdatesAsync rejecting
BgUnavailable ==
    \/ WatchResolved /\ ~hasTaskManager
    \/ BgPermissionRefused
    \/ BgStartFail

\* C16: a failure to begin the background subscription leaves the status,
\* the screen and the foreground buffer as they are and takes no
\* foreground subscription away: an active session stays active with its
\* foreground subscription live.
C16_BgFailureNonFatal ==
    [][BgUnavailable
         => /\ status' = status
            /\ mounted' = mounted
            /\ nav' = nav
            /\ coordsRef' = coordsRef
            /\ (fgLive => fgLive')
            /\ (locationSubscription => locationSubscription')]_vars

C16_Witness ==
    /\ hasTaskManager
    /\ initPc = "done"
    /\ bgTask = "off"
    /\ ~bgStopRequested
    /\ status = "active"
    /\ mounted
    /\ fgLive
    /\ Len(coordsRef) = 3

\* C17: the pace is never the result of a division by zero; while the
\* elapsed time or the distance is 0 the pace shown is the placeholder; and
\* a pace that has been set is elapsed minutes over kilometres for an
\* elapsed time and a distance of the session that were both above 0.
C17_PaceOnlyWhenBothPositive ==
    /\ pace[2] # 0
    /\ (elapsed = 0 \/ distanceRef = 0) => formatPace(pace) = Placeholder
    /\ pace # PaceZero
         => LET secs == pace[1] \div 1000000
                mm == pace[2] \div 60
            IN  /\ pace = PaceOf(secs, mm)
                /\ secs \in 1..elapsed
                /\ mm \in 1..distanceRef
                /\ formatPace(pace) # Placeholder

C17_Witness ==
    /\ elapsed = MaxElapsed
    /\ distanceRef = 0
    /\ Len(coordsRef) = 2
    /\ pace = PaceZero
    /\ status = "active"

\* C18: the coordinates of every endRun request are as many as the samples
\* of the route they were built from, in the same order, the i-th being
\* the longitude and then the latitude of the i-th sample.
C18_CoordinatesAreLngLat ==
    \A i \in InFlight("endRun") :
        LET route == submits[i].allCoords
            coordinates == Route(submits[i])
        IN  /\ Len(coordinates) = Len(route)
            /\ \A k \in 1..Len(route) :
                   /\ Len(coordinates[k]) = 2
                   /\ coordinates[k][1] = route[k].longitude
                   /\ coordinates[k][2] = route[k].latitude

C18_Witness ==
    \E i \in InFlight("endRun") :
        /\ Len(submits[i].allCoords) = 3
        /\ submits[i].allCoords[1].latitude # submits[i].allCoords[2].latitude
        /\ submits[i].allCoords[2].latitude # submits[i].allCoords[3].latitude
        /\ submits[i].allCoords # submits[i].fg0

\* C19: when the summary screen is opened the stored result is the payload
\* of the endRun call whose submitRun opened it, and a result the summary
\* screen has loaded is that payload.
C19_SummaryReadsThisResult ==
    /\ nav = "summary"
         => /\ Truthy(lastRunResult)
            /\ ParseResult(lastRunResult.raw) = handedOver
    /\ summaryResult # NoResult => summaryResult = handedOver

C19_Witness ==
    /\ nav = "summary"
    /\ summaryResult # NoResult
    /\ summaryResult = handedOver
    /\ Len(summaryResult.run.routeCoordinates) = 3
    /\ status = "stopping"

\* C20: no step lowers the cumulative distance, so it never gets smaller
\* while the session is active: not by a foreground fix, a tick, a step of
\* the background task or a submission that failed.
C20_DistanceMonotonic ==
    [][distanceRef' >= distanceRef]_vars

C20_Witness ==
    /\ status = "active"
    /\ lastAlert = "Error"
    /\ bgReads >= 1
    /\ Len(coordsRef) = 3
    /\ coordsRef[3].latitude < coordsRef[2].latitude
    /\ distanceRef > 0
    /\ elapsed > 0
    /\ bgInvocations >= 1

\* are every two consecutive points of the route more than 3 m apart?
SpacedOut(route) ==
    \A k \in 1..(Len(route) - 1) :
        haversineDistance(LngLat(route[k]), LngLat(route[k + 1])) > 3000

\* C21: the dedup pass keeps the first sample of the sorted sequence and
\* each later sample exactly when it lies more than 3 m from the last
\* kept one, so that a route that is not the fallback has every two
\* consecutive points more than 3 m apart.
C21_DedupAgainstLastKept ==
    merges >= 1
        => LET sorted == SortByTimestamp(fgArg \o bgArg)
               result == MergeResult(fgArg, bgArg)
           IN  /\ result = ThresholdDedup(sorted)
               /\ (sorted # <<>> => result # <<>> /\ result[1] = sorted[1])
               /\ (Len(result) >= 2 => merged = result /\ SpacedOut(merged))

\* a sample 2.2 m behind a dropped one and 4.4 m behind the last kept one
C21_Witness ==
    /\ merges >= 1
    /\ LET sorted == SortByTimestamp(fgArg \o bgArg)
       IN  /\ Len(sorted) = 3
           /\ sorted[1].latitude = 0
           /\ sorted[2].latitude = 2
           /\ sorted[3].latitude = 4
           /\ merged = <<sorted[1], sorted[3]>>
    /\ Len(bgArg) >= 1

\* the place of seq[i] when seq is put in ascending order of timestamp
\* (none counting as 0), samples of equal timestamp staying in the order
\* they have in seq
StableRank(seq, i) ==
    1 + Cardinality({j \in 1..Len(seq) :
          \/ TimestampOrZero(seq[j]) < TimestampOrZero(seq[i])
          \/ TimestampOrZero(seq[j]) = TimestampOrZero(seq[i]) /\ j < i})

\* C22: the sort of mergeCoords puts the concatenation of the foreground
\* and the background samples in ascending order of timestamp, a missing
\* timestamp counting as 0, and keeps samples of equal timestamp in the
\* order of the concatenation.
C22_StableSortByTimestamp ==
    merges >= 1
        => LET combined == fgArg \o bgArg
               sorted == SortByTimestamp(combined)
           IN  /\ Len(sorted) = Len(combined)
               /\ \A i \in 1..Len(combined) :
                      sorted[StableRank(combined, i)] = combined[i]
               /\ \A i, j \in 1..Len(sorted) :
                      (i < j /\ ~HasTimestamp(sorted[j])) => ~HasTimestamp(sorted[i])

\* a background sample without timestamp in front of the foreground
\* samples, and one with the timestamp of a foreground sample behind it
C22_Witness ==
    /\ merges >= 1
    /\ Len(fgArg) = 2
    /\ Len(bgArg) = 2
    /\ HasTimestamp(fgArg[1]) /\ HasTimestamp(fgArg[2])
    /\ fgArg[1].timestamp = fgArg[2].timestamp
    /\ ~HasTimestamp(bgArg[1])
    /\ HasTimestamp(bgArg[2])
    /\ bgArg[2].timestamp = fgArg[1].timestamp
    /\ bgArg[2].latitude # fgArg[2].latitude
    /\ SortByTimestamp(fgArg \o bgArg) = <<bgArg[1], fgArg[1], fgArg[2], bgArg[2]>>

\* a step of the watchPositionAsync callback
ForegroundFixStep == \E p \in Positions : ForegroundFix(ForegroundLocation(p))

\* the step of initRun that takes the initial fix
InitialFixStep == \E p \in Positions : GetFixOk(ForegroundLocation(p))

\* the buffer has grown by one sample at its end
AppendsOne == \E k \in DOMAIN coordsRef' : coordsRef' = Append(coordsRef, coordsRef'[k])

\* C23 (as claimed): every step leaves the foreground buffer as it is or
\* appends one sample at its end, and the steps that append are those of
\* the foreground fix callback.
C23_OnlyCallbackAppends ==
    [][coordsRef' # coordsRef => AppendsOne /\ ForegroundFixStep]_vars

\* C23 (amended): every step leaves the foreground buffer as it is or
\* appends one sample at its end, and the steps that append are those of
\* the foreground fix callback and the step of initRun that puts the
\* initial fix into the empty buffer.
C23_AppendOnlyByFixes ==
    [][coordsRef' # coordsRef
         => /\ AppendsOne
            /\ \/ ForegroundFixStep
               \/ InitialFixStep /\ coordsRef = <<>>]_vars

\* the buffer of three samples in arrival order after a tick, a merge with
\* a background sample and a failed submission
C23_Witness ==
    /\ status = "active"
    /\ lastAlert = "Error"
    /\ mounted
    /\ submits = <<>>
    /\ bgReads = 1
    /\ elapsed > 0
    /\ bgStore = Absent
    /\ bgInvocations = 1
    /\ Len(coordsRef) = 3
    /\ \A k \in 1..3 : coordsRef[k].timestamp = k

\* initRun has its foreground subscription: watchPositionAsync has resolved
StartCompleted == initPc \in {"bgPerm", "bgStart", "done"} /\ locationSubscription

\* C24 (as claimed): while the status of the mounted screen is active and
\* the start has completed, the foreground subscription is live, also
\* after a failed submission.
C24_ActiveHasLiveSubscription ==
    (mounted /\ status = "active" /\ StartCompleted) => fgLive

\* C25 (as claimed): submitRun does not begin while the status is
\* stopping, and no step leaves two endRun requests in flight.
C25_OneSubmissionAtATime ==
    [][/\ submitRun => status # "stopping"
       /\ Cardinality({i \in DOMAIN submits' : submits'[i].pc = "endRun"}) <= 1]_vars

\* C26 (as claimed): once an endRun call of the run has resolved, the status
\* is not active again and no further endRun request is issued; and the
\* status goes from stopping to active only at a rejected endRun call.
C26_NoReturnAfterSuccess ==
    [][/\ endSucceeded => status' # "active"
       /\ endSucceeded
            => Cardinality({i \in DOMAIN submits' : submits'[i].pc = "endRun"})
                 <= Cardinality(InFlight("endRun"))
       /\ (status = "stopping" /\ status' = "active")
            => \E i \in 1..MaxSubmits : EndRunFail(i)]_vars

\* is the sequence head the beginning of the sequence whole?
IsPrefix(head, whole) ==
    /\ Len(head) <= Len(whole)
    /\ SubSeq(whole, 1, Len(head)) = head

\* C27 (as claimed): a write of a task invocation keeps every sample the
\* buffer held before it, in order, in front of what it adds, however the
\* invocations interleave.
C27_NoAppendedSampleLost ==
    [][\A h \in 1..MaxOverlap :
         BgTaskWrite(h)
           => IsPrefix(ExistingBuffer(bgStore), ExistingBuffer(bgStore'))]_vars

\* C28 (as claimed): once the screen is torn down, cleanup having run, the
\* foreground subscription is not live and the background updates are not
\* running (a stop that was requested and has not completed yet is
\* accepted), at whichever point of initRun the teardown came.
C28_TeardownLeavesNothingLive ==
    ~mounted => (~fgLive /\ bgTask # "on")

\* C29 (as claimed): the route a session sends to endRun holds no sample
\* of an earlier session; the fix carried by a task invocation that was
\* still pending when the earlier session stopped is in no submitted route.
C29_NoEarlierSampleInRoute ==
    \A i \in InFlight("endRun") :
        \A k \in 1..Len(Route(submits[i])) :
            Route(submits[i])[k] # LngLat(StaleFix)

\* C30 (as claimed): formatPace renders a positive pace as minutes and
\* seconds with the seconds between 0 and 59, and a pace of zero or below
\* as the placeholder.
C30_SecondsBelowSixty ==
    formatted # NotFormatted
      => IF paceArg[1] > 0
         THEN /\ DOMAIN formatted = {"mins", "secs"}
              /\ formatted.secs \in 0..59
         ELSE formatted = Placeholder

====
